---- MODULE Spec2Model ----
(***************************************************************************)
(* Model of the Linux Process Monitor viewer: the setup view (log parsing  *)
(* and demo data), the dashboard (rolling-window stream, range filter,     *)
(* statistics, incident detection, analysis request, saved analysis) and   *)
(* the analysis service.                                                   *)
(*                                                                         *)
(* Numbers.  Percentages are integers counted in thousandths of a percent  *)
(* (12.345 % is 12345), so that toFixed(2) and toFixed(1) are real         *)
(* roundings.  Instants are integers counted in seconds.                   *)
(***************************************************************************)
EXTENDS Integers, Sequences, FiniteSets, TLC

\* ------------------------------------------------------------------ bounds

\* Largest number of stream ticks applied to one dashboard.
MaxTicks == 2

\* Longest log of the exhaustively enumerated timestamp patterns.
MaxStamps == 3

\* Longest log of the exhaustively enumerated load patterns.
MaxRun == 7

\* Largest number of analysis calls left in flight by dashboards that were reset.
MaxOrphans == 1

\* Longest pasted log of the exhaustively enumerated inputs.
MaxLines == 3

\* The longest log pasted for the request payload.
MaxPayload == 201

\* ------------------------------------------------------- program constants

MAX_HISTORY == 100

\* ---------------------------------------------------------------- numbers

Pct(n) == n * 1000

Min(a, b) == IF a < b THEN a ELSE b

Max(a, b) == IF a > b THEN a ELSE b

\* x rounded to the nearest multiple of m, halves away from zero.
RoundTo(x, m) ==
  IF x >= 0 THEN ((x + m \div 2) \div m) * m
            ELSE 0 - (((0 - x) + m \div 2) \div m) * m

\* Number(x.toFixed(2)) and parseFloat(x.toFixed(2)): two decimals.
toFixed2(x) == RoundTo(x, 10)

\* x.toFixed(1): one decimal.
toFixed1(x) == RoundTo(x, 100)

\* ------------------------------------------------------------- timestamps
\* A timestamp string is modelled by its kind and the wall-clock instant it
\* spells: "iso" ends in Z (what toISOString writes), "local" carries no zone
\* (what the capture script and a datetime-local input write), "bad" is text
\* that Date cannot parse (such as a bare HH:mm:ss), "empty" is ''.

IsoTs(w) == [kind |-> "iso", wall |-> w]

LocalTs(w) == [kind |-> "local", wall |-> w]

BAD == [kind |-> "bad", wall |-> 0]

EMPTY == [kind |-> "empty", wall |-> 0]

\* new Date(ts) is a valid date (its getTime() is not NaN).
ValidDate(ts) == ts.kind \in {"iso", "local"}

\* new Date(ts).getTime() of a valid date; zone is the browser's offset from
\* UTC in seconds, applied to strings that carry no zone.
getTime(ts, zone) == IF ts.kind = "iso" THEN ts.wall ELSE ts.wall - zone

\* new Date(t).toISOString()
toISOString(t) == IsoTs(t)

\* ts.length >= 16 ? ts.substring(0, 16) : ts  -- YYYY-MM-DDTHH:MM, no zone
formatForInput(ts) ==
  IF ts.kind \in {"iso", "local"} THEN LocalTs(ts.wall - (ts.wall % 60)) ELSE ts

\* ------------------------------------------------------------ JSON values
\* A decoded JSON value is a pair <<type, value>>.

Absent == <<"absent", 0>>

JNull == <<"null", 0>>

JNum(n) == <<"num", n>>

JStr(s) == <<"str", s>>

JBool(b) == <<"bool", b>>

\* A JSON string whose text is the timestamp string ts.
JTs(ts) == <<"ts", ts>>

\* JavaScript truthiness of a decoded value.
Truthy(v) ==
  CASE v[1] = "num"  -> v[2] # 0
    [] v[1] = "str"  -> v[2] # ""
    [] v[1] = "bool" -> v[2]
    [] v[1] = "ts"   -> v[2].kind # "empty"
    [] OTHER         -> FALSE

\* typeof v === 'number'
IsNumber(v) == v[1] = "num"

\* An optional number: << >> is undefined, <<x>> is the number x.
Undefined == << >>

Some(x) == <<x>>

\* ---------------------------------------------------------------- samples
\* CpuLogEntry.  memory_percent is optional; pid and command hold the decoded
\* value they were given (parseLogData copies them without a type check).

Sample(ts, pid, user, sys, mem, cmd) ==
  [timestamp |-> ts, pid |-> pid, cpu_user_percent |-> user,
   cpu_sys_percent |-> sys, memory_percent |-> mem, command |-> cmd]

\* ----------------------------------------------------------- pasted lines
\* One line of the pasted text after trim(): blank, text that JSON.parse
\* rejects ("garbage"), the JSON literal null, another JSON value that is not
\* an object ("scalar"), or a JSON object with these six members.

Obj(ts, pid, user, sys, mem, cmd) ==
  [timestamp |-> ts, pid |-> pid, cpu_user_percent |-> user,
   cpu_sys_percent |-> sys, memory_percent |-> mem, command |-> cmd]

NoObj == Obj(Absent, Absent, Absent, Absent, Absent, Absent)

Line(kind, obj) == [kind |-> kind, obj |-> obj]

BlankLine == Line("blank", NoObj)

GarbageLine == Line("garbage", NoObj)

NullLine == Line("null", NoObj)

ScalarLine == Line("scalar", NoObj)

ObjLine(ts, pid, user, sys, mem, cmd) == Line("object", Obj(ts, pid, user, sys, mem, cmd))

\* The for loop of parseLogData pushes an entry for this line: the line is
\* not blank, JSON.parse returns, the basic validation passes and building the
\* entry does not throw (a thrown error is caught by the loop's catch and the
\* line pushes nothing).
linePushes(line) ==
  LET entry == line.obj IN
  CASE line.kind = "blank"   -> FALSE     \* if (!cleanLine) continue
    [] line.kind = "garbage" -> FALSE     \* JSON.parse throws
    [] line.kind = "null"    -> FALSE     \* reading a member of null throws
    [] line.kind = "scalar"  -> FALSE     \* both members are undefined
    [] OTHER ->
       /\ IsNumber(entry.cpu_user_percent)
       /\ IsNumber(entry.cpu_sys_percent)
       \* entry.memory_percent.toFixed throws on a truthy non-number
       /\ ~(Truthy(entry.memory_percent) /\ ~IsNumber(entry.memory_percent))

\* The entry pushed for a line that pushes one, parsed at instant now.
pushedEntry(line, now) ==
  LET entry == line.obj IN
  Sample(IF Truthy(entry.timestamp) THEN entry.timestamp[2] ELSE toISOString(now),
         IF Truthy(entry.pid) THEN entry.pid ELSE JNum(0),
         toFixed2(entry.cpu_user_percent[2]),
         toFixed2(entry.cpu_sys_percent[2]),
         IF Truthy(entry.memory_percent)
           THEN Some(toFixed2(entry.memory_percent[2]))
           ELSE Undefined,
         entry.command)

\* parseLogData(input): input is the sequence of the text's lines.
parseLogData(input, now) ==
  LET pushing == SelectSeq(input, linePushes)
  IN  [i \in 1..Len(pushing) |-> pushedEntry(pushing[i], now)]

\* input.trim() is the empty string: every line is blank.
IsBlankText(input) == \A i \in 1..Len(input) : input[i].kind = "blank"

\* Math.random() scaled to 0 .. range-1, for draw k of sample i: the random
\* sequence is fixed by a seed.
Rand(seed, i, k, range) == (seed * 7919 + i * 613 + k * 97) % range

\* generateMockData(): sixty samples, one second apart, ending one second
\* before now, with a spike for 40 < i < 50.
generateMockData(now, seed) ==
  [j \in 1..60 |->
     LET i == j - 1
         isSpike == i > 40 /\ i < 50
         baseUser == IF isSpike THEN Pct(60) ELSE Pct(10)
         baseSys == IF isSpike THEN Pct(20) ELSE Pct(2)
     IN  Sample(toISOString(now - (60 - i)),
                JNum(1234),
                Min(Pct(100), baseUser + Rand(seed, i, 1, 10000)),
                Min(Pct(100), baseSys + Rand(seed, i, 2, 5000)),
                Some(Pct(45) + Rand(seed, i, 3, 1000)),
                JStr("python3 worker.py"))]

\* ------------------------------------------------------ analysis results
\* AnalysisResult values and the texts that carry them.

Report(summary, recommendations, severity) ==
  <<"report", [summary |-> summary, recommendations |-> recommendations,
               severity |-> severity]>>

\* The literal returned by the catch of analyzeCpuData.
FALLBACK ==
  Report("Failed to generate analysis using AI.",
         <<"Check your network connection", "Verify API Key">>, "LOW")

\* `if (analysis)`, `analysis &&`: null is falsy, an object is truthy.
IsSet(v) == v[1] = "report"

\* A text is null/undefined/'' (NoText), text JSON.parse rejects
\* (CorruptText) or the JSON text of a value.
NoText == <<"notext", 0>>

CorruptText == <<"corrupt", 0>>

\* JSON.stringify(v)
stringify(v) == <<"json", v>>

\* JSON.parse(text) returns (does not throw)
Decodable(text) == text[1] = "json"

\* JSON.parse(text) of a decodable text
decode(text) == text[2]

\* What the generation call did: still pending, raised, or returned a
\* response whose .text is the given text.
Pending == <<"pending", 0>>

Raised == <<"raise", 0>>

Responded(text) == <<"text", text>>

\* The settled value of the analyzeCpuData promise.
NotSettled == <<"none", 0>>

Thrown == <<"throw", 0>>

Returned(v) == <<"value", v>>

\* analyzeTry without the check of the response text: an absent text is
\* passed on as no result.
analyzeTryUnchecked(r) ==
  IF r = Raised THEN FALLBACK
  ELSE IF r[2] = NoText THEN JNull
  ELSE IF ~Decodable(r[2]) THEN FALLBACK
  ELSE decode(r[2])

\* The try/catch of analyzeCpuData once the generation call has settled
\* with r: the value the promise resolves to.
analyzeTry(r) ==
  IF r = Raised THEN FALLBACK                      \* await throws
  ELSE IF r[2] = NoText THEN FALLBACK              \* if (!resultText) throw
  ELSE IF ~Decodable(r[2]) THEN FALLBACK           \* JSON.parse throws
  ELSE decode(r[2])

\* The catch of analyzeCpuData runs for a generation call settled with r.
analyzeCaught(r) == r = Raised \/ r[2] = NoText \/ ~Decodable(r[2])

\* A sampledData that counts the indices from 1.
sampledDataOneBased(d) ==
  LET n == (Len(d) + 99) \div 100
      keeps(i) == i % n = 0
      kept == SelectSeq([i \in 1..Len(d) |-> i], keeps)
  IN  [k \in 1..Len(kept) |-> d[kept[k]]]

\* step = Math.ceil(data.length / 100)
step(d) == (Len(d) + 99) \div 100

\* sampledData = data.filter((_, index) => index % step === 0): the items at
\* the kept (0-based) indices, in their order.  On an empty array the
\* predicate is never called.
sampledData(d) ==
  LET n == step(d)
      keeps(i) == (i - 1) % n = 0
      kept == SelectSeq([i \in 1..Len(d) |-> i], keeps)
  IN  [k \in 1..Len(kept) |-> d[kept[k]]]

\* What console.error last printed: nothing yet, the Error thrown for a
\* missing API key (handleAnalyze's catch), the failure caught inside
\* analyzeCpuData, or the failure of handleLoadAnalysis.
NoMessage == ""

KeyMessage == "API Key not found. Please ensure process.env.API_KEY is set."

GeminiMessage == "Gemini Analysis Error:"

LoadMessage == "Failed to load saved analysis"

\* ------------------------------------------------------------------ state

VARIABLES
  appState,          \* App: "SETUP" or "DASHBOARD"; "CRASHED" once a render threw
  data,              \* App: the loaded samples (Dashboard's initialData)
  logInput,          \* SetupView: the pasted text, a sequence of lines
  error,             \* SetupView: the error message, "" for null
  localData,         \* Dashboard: the store
  analysis,          \* Dashboard: JNull or a report
  isAnalyzing,       \* Dashboard
  filterStart,       \* Dashboard: a timestamp string, EMPTY for ''
  filterEnd,         \* Dashboard
  hasSavedAnalysis,  \* Dashboard
  cpuThreshold,      \* Dashboard: percent
  isStreaming,       \* Dashboard
  timer,             \* [n: the live intervals, live: the interval that
                     \* streamIntervalRef.current names is one of them]
  storage,           \* localStorage item 'cpu_analysis_result'
  calls,             \* generation calls of this dashboard in flight
  thrown,            \* analyzeCpuData threw and the catch of handleAnalyze
                     \* has not run yet
  orphans,           \* calls in flight whose dashboard was unmounted
  response,          \* what the generation call of the last settled call did
  returned,          \* what the last settled analyzeCpuData call returned
  prompt,            \* the sampledData of the last prompt built
  console,           \* the last message of console.error
  apiKey,            \* process.env.API_KEY is set
  zone,              \* the browser's offset from UTC, in seconds
  ticks              \* ticks applied to this dashboard

appVars == <<appState, data>>

setupVars == <<logInput, error>>

filterVars == <<filterStart, filterEnd>>

streamVars == <<isStreaming, timer>>

callVars == <<calls, thrown, orphans, response, returned, prompt, console>>

envVars == <<apiKey, zone>>

vars == <<appState, data, logInput, error, localData, analysis, isAnalyzing,
          filterStart, filterEnd, hasSavedAnalysis, cpuThreshold, isStreaming,
          timer, storage, calls, thrown, orphans, response, returned, prompt, console,
          apiKey, zone, ticks>>

\* -------------------------------------------------------- derived views

\* An inRange whose upper comparison is strict.
inRangeStrictEnd(d) ==
  /\ ValidDate(d.timestamp)
  /\ \/ filterStart = EMPTY
     \/ /\ ValidDate(filterStart)
        /\ getTime(d.timestamp, zone) >= getTime(filterStart, zone)
  /\ \/ filterEnd = EMPTY
     \/ /\ ValidDate(filterEnd)
        /\ getTime(d.timestamp, zone) < getTime(filterEnd, zone)

\* The predicate of localData.filter in filteredData: comparisons with NaN
\* (an unparseable sample timestamp or filter value) are false.
inRange(d) ==
  /\ ValidDate(d.timestamp)
  /\ \/ filterStart = EMPTY                                 \* -Infinity
     \/ /\ ValidDate(filterStart)
        /\ getTime(d.timestamp, zone) >= getTime(filterStart, zone)
  /\ \/ filterEnd = EMPTY                                   \* Infinity
     \/ /\ ValidDate(filterEnd)
        /\ getTime(d.timestamp, zone) <= getTime(filterEnd, zone)

filteredData ==
  IF isStreaming THEN localData
  ELSE IF filterStart = EMPTY /\ filterEnd = EMPTY THEN localData
  ELSE SelectSeq(localData, inRange)

\* a / b rounded to the nearest integer, halves away from zero (b > 0).
DivRound(a, b) ==
  IF a >= 0 THEN (2 * a + b) \div (2 * b)
            ELSE 0 - ((2 * (0 - a) + b) \div (2 * b))

\* (sum / n).toFixed(1), in thousandths
meanFixed1(sum, n) == DivRound(sum, n * 100) * 100

\* The 'N/A' of stats.avgMem, and a numeric statistic.
NA == <<"N/A", 0>>

Num(x) == <<"num", x>>

\* The forEach of stats over view: the running sums after the first i samples.
statsSums(view) ==
  LET acc[i \in 0..Len(view)] ==
        IF i = 0
        THEN [sumUser |-> 0, sumSys |-> 0, sumMem |-> 0, maxTotal |-> 0, memCount |-> 0]
        ELSE LET a == acc[i - 1]
                 d == view[i]
                 total == d.cpu_user_percent + d.cpu_sys_percent
                 hasMem == d.memory_percent # Undefined
             IN  [sumUser  |-> a.sumUser + d.cpu_user_percent,
                  sumSys   |-> a.sumSys + d.cpu_sys_percent,
                  sumMem   |-> IF hasMem THEN a.sumMem + d.memory_percent[1] ELSE a.sumMem,
                  maxTotal |-> IF total > a.maxTotal THEN total ELSE a.maxTotal,
                  memCount |-> IF hasMem THEN a.memCount + 1 ELSE a.memCount]
  IN  acc[Len(view)]

\* stats of a view.
statsOf(view) ==
  IF Len(view) = 0
  THEN [avgUser |-> 0, avgSys |-> 0, maxTotal |-> 0, avgMem |-> Num(0), count |-> 0]
  ELSE LET a == statsSums(view) IN
       [avgUser  |-> meanFixed1(a.sumUser, Len(view)),
        avgSys   |-> meanFixed1(a.sumSys, Len(view)),
        maxTotal |-> toFixed1(a.maxTotal),
        avgMem   |-> IF a.memCount > 0 THEN Num(meanFixed1(a.sumMem, a.memCount)) ELSE NA,
        count    |-> Len(view)]

stats == statsOf(filteredData)

\* currentStart = null
NoStart == [kind |-> "null", wall |-> 0]

\* `&& currentStart`: null and '' are falsy.
StartSet(cs) == cs.kind \notin {"null", "empty"}

Incident(start, end, maxVal) == [start |-> start, end |-> end, maxVal |-> maxVal]

\* The forEach of alertIncidents over view at threshold (percent): the
\* incidents and the run variables after the first i samples.
incidentSweep(view, threshold) ==
  LET acc[i \in 0..Len(view)] ==
        IF i = 0
        THEN [incidents |-> << >>, consecutiveCount |-> 0,
              currentStart |-> NoStart, currentMax |-> 0]
        ELSE LET a == acc[i - 1]
                 d == view[i]
                 total == d.cpu_user_percent + d.cpu_sys_percent
             IN  IF total > Pct(threshold)
                 THEN [incidents |-> a.incidents,
                       consecutiveCount |-> a.consecutiveCount + 1,
                       currentStart |-> IF a.consecutiveCount = 0
                                          THEN d.timestamp ELSE a.currentStart,
                       currentMax |-> IF a.consecutiveCount = 0
                                        THEN total ELSE Max(a.currentMax, total)]
                 ELSE [incidents |->
                         IF a.consecutiveCount >= 3 /\ StartSet(a.currentStart)
                         THEN Append(a.incidents,
                                Incident(a.currentStart, view[i - 1].timestamp, a.currentMax))
                         ELSE a.incidents,
                       consecutiveCount |-> 0,
                       currentStart |-> NoStart,
                       currentMax |-> 0]
  IN  acc[Len(view)]

\* An alertIncidents that does not flush a run still open at the end.
incidentsOfNoFlush(view, threshold) == incidentSweep(view, threshold).incidents

\* alertIncidents of a view: the sweep and the flush of a run still open.
incidentsOf(view, threshold) ==
  LET a == incidentSweep(view, threshold) IN
  IF a.consecutiveCount >= 3 /\ StartSet(a.currentStart)
  THEN Append(a.incidents,
         Incident(a.currentStart, view[Len(view)].timestamp, a.currentMax))
  ELSE a.incidents

alertIncidents == incidentsOf(filteredData, cpuThreshold)

\* -------------------------------------------------------------- setup view

\* No interval was ever set: streamIntervalRef.current is null.
NoTimer == [n |-> 0, live |-> FALSE]

\* The macrotask boundary: no event handler or timer callback runs while the
\* catch of a handleAnalyze whose call already threw is still to run.
Ready == ~thrown

\* The state of a Dashboard mounted on d: the useState initial values and the
\* three mount effects (saved-analysis check, filter initialisation, and the
\* streaming effect, which finds isStreaming false and no interval to clear).
Mount(d) ==
  /\ localData' = d
  /\ analysis' = JNull
  /\ isAnalyzing' = FALSE
  /\ filterStart' = IF Len(d) > 0 THEN formatForInput(d[1].timestamp) ELSE EMPTY
  /\ filterEnd' = IF Len(d) > 0 THEN formatForInput(d[Len(d)].timestamp) ELSE EMPTY
  /\ hasSavedAnalysis' = (storage # NoText)
  /\ cpuThreshold' = 80
  /\ isStreaming' = FALSE
  /\ timer' = NoTimer
  /\ calls' = 0
  /\ thrown' = FALSE
  /\ ticks' = 0

\* App.handleDataLoaded(d), ending with the Dashboard mounted; the SetupView
\* and its state are gone.
handleDataLoaded(d) ==
  /\ data' = d
  /\ appState' = "DASHBOARD"
  /\ logInput' = << >>
  /\ error' = ""
  /\ Mount(d)
  /\ UNCHANGED <<storage, orphans, response, returned, prompt, console, envVars>>

\* The textarea's onChange.
SetLogInput(text) ==
  /\ appState = "SETUP"
  /\ logInput' = text
  /\ UNCHANGED <<appVars, error, localData, analysis, isAnalyzing, filterVars,
                 hasSavedAnalysis, cpuThreshold, streamVars, storage, callVars,
                 envVars, ticks>>

\* A handleParse that hands over whatever a non-blank text parsed to.
handleParseUnchecked(now) ==
  /\ appState = "SETUP"
  /\ IF IsBlankText(logInput)
     THEN /\ error' = "Please paste some log data first."
          /\ UNCHANGED <<appVars, logInput, localData, analysis, isAnalyzing,
                         filterVars, hasSavedAnalysis, cpuThreshold, streamVars,
                         storage, callVars, envVars, ticks>>
     ELSE handleDataLoaded(parseLogData(logInput, now))

\* SetupView.handleParse at instant now.
handleParse(now) ==
  /\ appState = "SETUP"
  /\ LET parsed == parseLogData(logInput, now) IN
     IF IsBlankText(logInput) \/ Len(parsed) = 0
     THEN /\ error' = IF IsBlankText(logInput)
                        THEN "Please paste some log data first."
                        ELSE "Could not parse any valid JSON lines. Check the format."
          /\ UNCHANGED <<appVars, logInput, localData, analysis, isAnalyzing,
                         filterVars, hasSavedAnalysis, cpuThreshold, streamVars,
                         storage, callVars, envVars, ticks>>
     ELSE handleDataLoaded(parsed)

\* SetupView.loadDemo at instant now, with the random draws fixed by seed.
loadDemo(now, seed) ==
  /\ appState = "SETUP"
  /\ handleDataLoaded(generateMockData(now, seed))

\* ----------------------------------------------------------------- stream

\* clearInterval(streamIntervalRef.current)
clearInterval(t) == IF t.live THEN [n |-> t.n - 1, live |-> FALSE] ELSE t

\* streamIntervalRef.current = setInterval(...)
setInterval(t) == [n |-> t.n + 1, live |-> TRUE]

\* A streaming effect that returns no cleanup.
effectCleanupMissing(t) == t

\* The cleanup returned by the streaming effect.
effectCleanup(t) == clearInterval(t)

\* The body of the streaming effect.
effectBody(streaming, t) == IF streaming THEN setInterval(t) ELSE clearInterval(t)

\* The streaming effect run for a changed isStreaming: the cleanup of the
\* previous run, then the body.
streamingEffect(streaming, t) == effectBody(streaming, effectCleanup(t))

\* The Dashboard unmounts: the cleanup of its streaming effect runs and its
\* state is discarded; a call in flight is not cancelled and goes on alone.
Unmount ==
  /\ orphans + calls <= MaxOrphans
  /\ localData' = << >>
  /\ analysis' = JNull
  /\ isAnalyzing' = FALSE
  /\ filterStart' = EMPTY
  /\ filterEnd' = EMPTY
  /\ hasSavedAnalysis' = FALSE
  /\ cpuThreshold' = 80
  /\ isStreaming' = FALSE
  /\ timer' = effectCleanup(timer)
  /\ calls' = 0
  /\ thrown' = FALSE
  /\ orphans' = orphans + calls
  /\ ticks' = 0

\* App.handleReset, ending with the SetupView mounted.
handleReset ==
  /\ appState = "DASHBOARD"
  /\ Ready
  /\ data' = << >>
  /\ appState' = "SETUP"
  /\ logInput' = << >>
  /\ error' = ""
  /\ Unmount
  /\ UNCHANGED <<storage, response, returned, prompt, console, envVars>>

\* A streaming effect that leaves the analysis alone.
effectAnalysisKept(streaming, an) == an

\* if (analysis) setAnalysis(null), at the start of a streaming run.
effectAnalysis(streaming, an) == IF streaming /\ IsSet(an) THEN JNull ELSE an

\* toggleStream, with the re-render and the streaming effect it causes.
toggleStream ==
  /\ appState = "DASHBOARD"
  /\ Ready
  /\ isStreaming' = ~isStreaming
  /\ timer' = streamingEffect(~isStreaming, timer)
  /\ analysis' = effectAnalysis(~isStreaming, analysis)
  /\ UNCHANGED <<appVars, setupVars, localData, isAnalyzing, filterVars,
                 hasSavedAnalysis, cpuThreshold, storage, callVars, envVars, ticks>>

clamp(num) == Min(Pct(100), Max(0, num))

\* The entry a tick derives from lastEntry; du, ds, dm are the three drifts
\* drift(), drift() / 2 and drift() / 5.
newEntry(lastEntry, du, ds, dm) ==
  LET newDate == getTime(lastEntry.timestamp, zone) + 1
      newUser == clamp(lastEntry.cpu_user_percent + du)
      newSys == clamp(lastEntry.cpu_sys_percent + ds)
      lastHasMem == lastEntry.memory_percent # Undefined
                      /\ lastEntry.memory_percent[1] # 0
      newMem == IF lastHasMem THEN clamp(lastEntry.memory_percent[1] + dm) ELSE 0
  IN  Sample(toISOString(newDate),
             lastEntry.pid,
             toFixed2(newUser),
             toFixed2(newSys),
             IF lastHasMem /\ newMem # 0 THEN Some(toFixed2(newMem)) ELSE Undefined,
             lastEntry.command)

\* A window that keeps the first MAX_HISTORY items instead of the last.
rollingWindowHead(prevData, entry) ==
  LET updated == Append(prevData, entry) IN
  IF Len(updated) > MAX_HISTORY THEN SubSeq(updated, 1, MAX_HISTORY) ELSE updated

\* Rolling window: [...prevData, entry] cut to its last MAX_HISTORY items.
rollingWindow(prevData, entry) ==
  LET updated == Append(prevData, entry) IN
  IF Len(updated) > MAX_HISTORY
  THEN SubSeq(updated, Len(updated) - MAX_HISTORY + 1, Len(updated))
  ELSE updated

\* One callback of the interval: the setLocalData updater.  On a last
\* timestamp Date cannot parse, toISOString throws inside the updater; nothing
\* catches it and React unmounts the whole tree.
tick(du, ds, dm) ==
  /\ appState = "DASHBOARD"
  /\ Ready
  /\ timer.n > 0
  /\ ticks < MaxTicks
  /\ LET lastEntry == localData[Len(localData)] IN
     IF ValidDate(lastEntry.timestamp)
     THEN /\ localData' = rollingWindow(localData, newEntry(lastEntry, du, ds, dm))
          /\ ticks' = ticks + 1
          /\ UNCHANGED <<appVars, setupVars, analysis, isAnalyzing, filterVars,
                         hasSavedAnalysis, cpuThreshold, streamVars, storage,
                         callVars, envVars>>
     ELSE /\ appState' = "CRASHED"
          /\ Unmount
          /\ UNCHANGED <<data, setupVars, storage, response, returned, prompt,
                         console, envVars>>

\* --------------------------------------------------------------- analysis

\* A handleAnalyze that sets an interval going when the stream is idle.
pauseForAnalysisRestarting(streaming, t) ==
  IF streaming THEN streamingEffect(FALSE, t) ELSE setInterval(t)

\* The interval after `if (isStreaming) { ...; setIsStreaming(false); }` of
\* handleAnalyze and the streaming effect that change causes; with the stream
\* idle nothing is set and no effect runs.
pauseForAnalysis(streaming, t) ==
  IF streaming THEN streamingEffect(FALSE, t) ELSE t

\* An Analyze button that is disabled on an empty view only.
analyzeDisabledOnEmpty == Len(filteredData) = 0

\* disabled={isAnalyzing || filteredData.length === 0} of the Analyze button
analyzeDisabled == isAnalyzing \/ Len(filteredData) = 0

\* handleAnalyze up to its await, with the re-render and the streaming effect;
\* confirmed is the answer to confirm().  The button is disabled while
\* isAnalyzing or on an empty view.  Without the API key analyzeCpuData throws
\* before any call is made.
handleAnalyze(confirmed) ==
  /\ appState = "DASHBOARD"
  /\ Ready
  /\ ~analyzeDisabled
  /\ IF isStreaming /\ ~confirmed
     THEN UNCHANGED vars
     ELSE /\ isStreaming' = FALSE
          /\ timer' = pauseForAnalysis(isStreaming, timer)
          /\ isAnalyzing' = TRUE
          /\ calls' = IF apiKey THEN calls + 1 ELSE calls
          /\ thrown' = ~apiKey
          /\ prompt' = IF apiKey THEN sampledData(filteredData) ELSE prompt
          /\ UNCHANGED <<appVars, setupVars, localData, analysis, filterVars,
                         hasSavedAnalysis, cpuThreshold, storage, orphans,
                         response, returned, console, envVars, ticks>>

\* A handleAnalyze without its finally block, when analyzeCpuData threw.
analyzeRejectedNoFinally ==
  /\ thrown
  /\ returned' = Thrown
  /\ thrown' = FALSE
  /\ console' = KeyMessage
  /\ UNCHANGED <<appVars, setupVars, localData, analysis, isAnalyzing, filterVars,
                 hasSavedAnalysis, cpuThreshold, streamVars, storage, calls,
                 orphans, response, prompt, envVars, ticks>>

\* The rest of handleAnalyze when analyzeCpuData threw: catch, finally.
analyzeRejected ==
  /\ thrown
  /\ returned' = Thrown
  /\ isAnalyzing' = FALSE
  /\ thrown' = FALSE
  /\ console' = KeyMessage
  /\ UNCHANGED <<appVars, setupVars, localData, analysis, filterVars,
                 hasSavedAnalysis, cpuThreshold, streamVars, storage, calls,
                 orphans, response, prompt, envVars, ticks>>

\* The generation call settles with r, analyzeCpuData returns and the rest of
\* handleAnalyze runs: setAnalysis(result), finally.
analyzeSettled(r) ==
  /\ appState = "DASHBOARD"
  /\ Ready
  /\ calls > 0
  /\ response' = r
  /\ returned' = Returned(analyzeTry(r))
  /\ analysis' = analyzeTry(r)
  /\ isAnalyzing' = FALSE
  /\ calls' = calls - 1
  /\ console' = IF analyzeCaught(r) THEN GeminiMessage ELSE console
  /\ UNCHANGED <<appVars, setupVars, localData, filterVars, hasSavedAnalysis,
                 cpuThreshold, streamVars, storage, thrown, orphans, prompt,
                 envVars, ticks>>

\* The same for a call whose dashboard is gone: its setState calls change
\* nothing.
orphanSettled(r) ==
  /\ orphans > 0
  /\ Ready
  /\ orphans' = orphans - 1
  /\ response' = r
  /\ returned' = Returned(analyzeTry(r))
  /\ console' = IF analyzeCaught(r) THEN GeminiMessage ELSE console
  /\ UNCHANGED <<appVars, setupVars, localData, analysis, isAnalyzing, filterVars,
                 hasSavedAnalysis, cpuThreshold, streamVars, storage, calls,
                 thrown, prompt, envVars, ticks>>

\* handleSaveAnalysis; the Save button is rendered only with an analysis.
handleSaveAnalysis ==
  /\ appState = "DASHBOARD"
  /\ Ready
  /\ IsSet(analysis)
  /\ storage' = stringify(analysis)
  /\ hasSavedAnalysis' = TRUE
  /\ UNCHANGED <<appVars, setupVars, localData, analysis, isAnalyzing, filterVars,
                 cpuThreshold, streamVars, callVars, envVars, ticks>>

\* handleLoadAnalysis; the Load Saved button is rendered only with
\* hasSavedAnalysis and not while streaming.
handleLoadAnalysis ==
  /\ appState = "DASHBOARD"
  /\ Ready
  /\ hasSavedAnalysis
  /\ ~isStreaming
  /\ analysis' = IF storage # NoText /\ Decodable(storage)
                   THEN decode(storage) ELSE analysis
  /\ console' = IF storage # NoText /\ ~Decodable(storage)
                  THEN LoadMessage ELSE console
  /\ UNCHANGED <<appVars, setupVars, localData, isAnalyzing, filterVars,
                 hasSavedAnalysis, cpuThreshold, streamVars, storage, calls,
                 thrown, orphans, response, returned, prompt, envVars, ticks>>

\* ---------------------------------------------------------------- filters

\* The Start Time input's onChange.  While streaming the toolbar is styled
\* pointer-events-none, which stops the mouse only: the input is not disabled
\* and still takes the keyboard focus and typed values.
setFilterStart(v) ==
  /\ appState = "DASHBOARD"
  /\ Ready
  /\ filterStart' = v
  /\ UNCHANGED <<appVars, setupVars, localData, analysis, isAnalyzing, filterEnd,
                 hasSavedAnalysis, cpuThreshold, streamVars, storage, callVars,
                 envVars, ticks>>

\* The End Time input's onChange.
setFilterEnd(v) ==
  /\ appState = "DASHBOARD"
  /\ Ready
  /\ filterEnd' = v
  /\ UNCHANGED <<appVars, setupVars, localData, analysis, isAnalyzing, filterStart,
                 hasSavedAnalysis, cpuThreshold, streamVars, storage, callVars,
                 envVars, ticks>>

\* resetFilters; the button is in the same toolbar and is not disabled.
resetFilters ==
  /\ appState = "DASHBOARD"
  /\ Ready
  /\ IF Len(localData) > 0
     THEN /\ filterStart' = formatForInput(localData[1].timestamp)
          /\ filterEnd' = formatForInput(localData[Len(localData)].timestamp)
     ELSE UNCHANGED filterVars
  /\ UNCHANGED <<appVars, setupVars, localData, analysis, isAnalyzing,
                 hasSavedAnalysis, cpuThreshold, streamVars, storage, callVars,
                 envVars, ticks>>

\* The Alert Limit input's onChange with the number v typed.
setCpuThreshold(v) ==
  /\ appState = "DASHBOARD"
  /\ Ready
  /\ cpuThreshold' = Min(100, Max(1, v))
  /\ UNCHANGED <<appVars, setupVars, localData, analysis, isAnalyzing, filterVars,
                 hasSavedAnalysis, streamVars, storage, callVars, envVars, ticks>>

\* ------------------------------------------------------------------ inputs

\* The instants at which data is loaded (new Date()).
Nows == {600}

\* A line as the capture script prints it: timestamp without zone, pid, the
\* two CPU numbers and memory_percent.
ScriptLine(wall, user, sys, mem) ==
  ObjLine(JTs(LocalTs(wall)), JNum(4242), JNum(user), JNum(sys), JNum(mem), Absent)

\* The responses of the generation call.
SomeReport == Report("CPU bound", <<"Profile the hot loop">>, "HIGH")

Responses ==
  {Raised, Responded(NoText), Responded(CorruptText),
   Responded(stringify(SomeReport)), Responded(stringify(JNull))}

\* What localStorage may hold when the page opens.
InitialStorage == {NoText, CorruptText, stringify(SomeReport)}

\* The state after construction: App in SETUP with no data, no Dashboard.
InitWith(storages, keys, zones) ==
  /\ appState = "SETUP"
  /\ data = << >>
  /\ logInput = << >>
  /\ error = ""
  /\ localData = << >>
  /\ analysis = JNull
  /\ isAnalyzing = FALSE
  /\ filterStart = EMPTY
  /\ filterEnd = EMPTY
  /\ hasSavedAnalysis = FALSE
  /\ cpuThreshold = 80
  /\ isStreaming = FALSE
  /\ timer = NoTimer
  /\ storage \in storages
  /\ calls = 0
  /\ thrown = FALSE
  /\ orphans = 0
  /\ response = Pending
  /\ returned = NotSettled
  /\ prompt = << >>
  /\ console = NoMessage
  /\ apiKey \in keys
  /\ zone \in zones
  /\ ticks = 0

\* --------------------------------------------- Spec: the dashboard's control

\* Pasted logs: three script lines, one line with an unparseable timestamp,
\* one line that is no JSON.
ControlLogs ==
  { [i \in 1..3 |-> ScriptLine(120 + i, Pct(50), Pct(20), Pct(30))],
    << ObjLine(JTs(BAD), JNum(7), JNum(Pct(50)), JNum(Pct(20)), Absent, JStr("sh")) >>,
    << GarbageLine >> }

Init == InitWith(InitialStorage, BOOLEAN, {0})

Next ==
  \/ \E text \in ControlLogs : SetLogInput(text)
  \/ \E now \in Nows : handleParse(now)
  \/ \E now \in Nows : loadDemo(now, 1)
  \/ handleReset
  \/ toggleStream
  \/ tick(0, 0, 0)
  \/ \E confirmed \in BOOLEAN : handleAnalyze(confirmed)
  \/ analyzeRejected
  \/ \E r \in Responses : analyzeSettled(r)
  \/ \E r \in Responses : orphanSettled(r)
  \/ handleSaveAnalysis
  \/ handleLoadAnalysis

Spec == Init /\ [][Next]_vars

\* ------------------------------------------ SpecStream: the rolling window

\* A script log of n lines, one second apart, with CPU values next to the
\* ends of the scale so that drifts run into the clamp.
StreamLog(n, user, sys, mem) == [i \in 1..n |-> ScriptLine(i, user, sys, mem)]

\* Pasted logs around the window size: one line, one short of the window, a
\* full window, more than a window; and two lines whose memory_percent,
\* 0.004, is stored as 0.
StreamLogs ==
  { StreamLog(1, Pct(50), Pct(20), Pct(30)),
    StreamLog(2, Pct(10), Pct(5), 4),
    StreamLog(MAX_HISTORY - 1, Pct(98), Pct(1), 500),
    StreamLog(MAX_HISTORY, Pct(3), Pct(99), 99500),
    StreamLog(MAX_HISTORY + 20, Pct(50), Pct(20), Pct(30)) }

\* The drifts of one tick: drift() is in [-5, 5), so drift() / 2 is in
\* [-2.5, 2.5) and drift() / 5 in [-1, 1).
Drifts ==
  { <<-5000, -2500, -1000>>, <<4999, 2499, 999>>, <<0, 0, 0>>, <<4999, -2500, 0>>,
    <<-1234, 1234, 567>> }

InitStream == InitWith({NoText}, {TRUE}, {0, 3600})

NextStream ==
  \/ \E text \in StreamLogs : SetLogInput(text)
  \/ \E now \in Nows : handleParse(now)
  \/ \E now \in Nows, seed \in {1, 2} : loadDemo(now, seed)
  \/ handleReset
  \/ toggleStream
  \/ \E d \in Drifts : tick(d[1], d[2], d[3])

SpecStream == InitStream /\ [][NextStream]_vars

\* ------------------------------------- SpecLive: analysis requests complete

InitLive == InitWith({NoText}, BOOLEAN, {0})

NextLive ==
  \/ \E text \in ControlLogs : SetLogInput(text)
  \/ \E now \in Nows : handleParse(now)
  \/ handleReset
  \/ toggleStream
  \/ tick(0, 0, 0)
  \/ \E confirmed \in BOOLEAN : handleAnalyze(confirmed)
  \/ analyzeRejected
  \/ \E r \in Responses : analyzeSettled(r)
  \/ \E r \in Responses : orphanSettled(r)

\* The continuation of an await whose promise is already rejected is a queued
\* microtask, which the event loop runs; the generation call is taken to
\* settle, one way or another, while its dashboard is waiting for it.
SpecLive ==
  /\ InitLive
  /\ [][NextLive]_vars
  /\ WF_vars(analyzeRejected)
  /\ WF_vars(\E r \in Responses : analyzeSettled(r))

\* ------------------------------------------ SpecPayload: the request payload

\* Pasted logs around the downsampling steps: one line, 100 lines (step 1),
\* 101 and 200 lines (step 2), more than 200 lines (step 3).
PayloadLogs ==
  { StreamLog(n, Pct(50), Pct(20), Pct(30)) : n \in {1, 100, 101, 200, MaxPayload} }

InitPayload == InitWith({NoText}, {TRUE}, {0})

NextPayload ==
  \/ \E text \in PayloadLogs : SetLogInput(text)
  \/ \E now \in Nows : handleParse(now)
  \/ handleReset
  \/ toggleStream
  \/ \E v \in {EMPTY, LocalTs(60)} : setFilterStart(v)
  \/ \E v \in {EMPTY, LocalTs(120)} : setFilterEnd(v)
  \/ \E confirmed \in BOOLEAN : handleAnalyze(confirmed)
  \/ analyzeSettled(Responded(stringify(SomeReport)))

SpecPayload == InitPayload /\ [][NextPayload]_vars

\* ------------------------------------- SpecIncidents: the incident detector

\* A script line taken at minute i with the given user CPU and 5 % system CPU.
LoadLine(i, user) == ScriptLine(60 * i, user, Pct(5), Pct(30))

\* User CPU values whose totals are 10, 90 and 95.
Loads == {Pct(5), Pct(85), Pct(90)}

\* The log whose totals are 90,90,90,10,95,95,95,95,10.
ExampleLoads ==
  <<Pct(85), Pct(85), Pct(85), Pct(5), Pct(90), Pct(90), Pct(90), Pct(90), Pct(5)>>

ExampleLog == [i \in 1..Len(ExampleLoads) |-> LoadLine(i, ExampleLoads[i])]

\* The textarea's onChange when one more line is typed at the end of a text
\* of fewer than max lines.
TypeLine(line, max) ==
  /\ Len(logInput) < max
  /\ SetLogInput(Append(logInput, line))

InitIncidents == InitWith({NoText}, {TRUE}, {0})

NextIncidents ==
  \/ \E user \in Loads : TypeLine(LoadLine(Len(logInput) + 1, user), MaxRun)
  \/ SetLogInput(ExampleLog)
  \/ \E now \in Nows : handleParse(now)
  \/ handleReset
  \/ \E v \in {80, 90, 96} : setCpuThreshold(v)

SpecIncidents == InitIncidents /\ [][NextIncidents]_vars

\* ---------------------------------------------------- SpecParse: the parser

\* The lines a pasted text is made of: blank, not JSON, null, a JSON number,
\* and objects: a full script line with three decimals, one with the CPU
\* numbers only, one with odd but harmless members (unparseable timestamp,
\* text pid, numbers out of range, memory 0, numeric command), one with a
\* text CPU value, one without cpu_sys_percent, and lines with numeric CPU
\* values whose memory_percent is a text, true, or null.
ParseLines ==
  { BlankLine, GarbageLine, NullLine, ScalarLine,
    ObjLine(JTs(LocalTs(61)), JNum(4242), JNum(12345), JNum(1004), JNum(30005), JStr("worker")),
    ObjLine(Absent, Absent, JNum(0), JNum(Pct(100)), Absent, Absent),
    ObjLine(JTs(BAD), JStr("p1"), JNum(0 - 500), JNum(Pct(250)), JNum(0), JNum(5)),
    ObjLine(JTs(LocalTs(62)), JNum(1), JStr("12.5"), JNum(Pct(2)), Absent, Absent),
    ObjLine(JTs(LocalTs(63)), JNum(1), JNum(Pct(3)), Absent, Absent, Absent),
    ObjLine(JTs(LocalTs(64)), JNum(1), JNum(Pct(7)), JNum(Pct(8)), JStr("45"), Absent),
    ObjLine(JTs(LocalTs(65)), JNum(1), JNum(Pct(9)), JNum(Pct(1)), JBool(TRUE), Absent),
    ObjLine(JTs(LocalTs(66)), JNum(1), JNum(Pct(4)), JNum(Pct(6)), JNull, Absent) }

InitParse == InitWith({NoText}, {TRUE}, {0})

NextParse ==
  \/ \E line \in ParseLines : TypeLine(line, MaxLines)
  \/ \E now \in Nows : handleParse(now)
  \/ handleReset

SpecParse == InitParse /\ [][NextParse]_vars

\* ------------------------------------------------ SpecFilter: the range filter

\* Script lines at 00:01:00, 00:01:30 (without memory_percent) and 00:02:00
\* local time, a line stamped 00:01:00Z, and a line with an unparseable
\* timestamp and no memory_percent.
StampLines ==
  { ScriptLine(60, Pct(10), Pct(2), Pct(40)),
    ObjLine(JTs(LocalTs(90)), JNum(4242), JNum(Pct(20)), JNum(Pct(4)), Absent, Absent),
    ScriptLine(120, Pct(30), Pct(6), Pct(50)),
    ObjLine(JTs(IsoTs(60)), JNum(4242), JNum(Pct(40)), JNum(Pct(8)), JNum(Pct(60)), Absent),
    ObjLine(JTs(BAD), JNum(4242), JNum(Pct(50)), JNum(Pct(9)), Absent, Absent) }

\* What the datetime-local inputs are set to: cleared, 00:01, 00:02, 01:01.
FilterInputs == {EMPTY, LocalTs(60), LocalTs(120), LocalTs(3660)}

InitFilter == InitWith({NoText}, {TRUE}, {0, 3600})

NextFilter ==
  \/ \E line \in StampLines : TypeLine(line, MaxStamps)
  \/ \E now \in Nows : handleParse(now)
  \/ handleReset
  \/ toggleStream
  \/ \E v \in FilterInputs : setFilterStart(v)
  \/ \E v \in FilterInputs : setFilterEnd(v)
  \/ resetFilters

SpecFilter == InitFilter /\ [][NextFilter]_vars

\* ===================================================================== claims

\* A dashboard is mounted.
Mounted == appState = "DASHBOARD"

\* ----------------------------------------------------------------------- C1
\* C1: after one or more ticks the store holds at most 100 samples, and each
\* tick leaves the last 100 elements of the old store followed by the new
\* sample: the samples before the new one are the newest of the old store, in
\* their order, and only the oldest are dropped.
C1_RollingWindow ==
  /\ []((Mounted /\ ticks >= 1) => Len(localData) <= 100)
  /\ [][(Mounted /\ Mounted' /\ ticks' = ticks + 1)
          => /\ Len(localData') = Min(Len(localData) + 1, 100)
             /\ \A k \in 1..(Len(localData') - 1) :
                  localData'[Len(localData') - k] = localData[Len(localData) + 1 - k]]_vars

\* A tick on a store loaded with more than 100 samples cut it to the last 100:
\* the oldest sample left is the one that was 100 - ticks from the end.
C1_Witness ==
  /\ Mounted /\ ticks >= 1
  /\ Len(data) > 100
  /\ Len(localData) = 100
  /\ localData[1] = data[Len(data) - 100 + ticks + 1]

\* C2: once the stream is idle (pause, confirmed analysis) or the dashboard is
\* torn down (reset, unmount), no interval is left alive, so no tick, not even
\* one already scheduled, is applied: the store stays as it is for as long as
\* the dashboard stays mounted with the stream idle.
C2_NoTickAfterStop ==
  /\ [](~(Mounted /\ isStreaming) => timer.n = 0)
  /\ [][(Mounted /\ Mounted' /\ ~isStreaming /\ ~isStreaming')
          => localData' = localData]_vars

\* The stream ran, ticked, and is idle again on the same dashboard.
C2_Witness == Mounted /\ ~isStreaming /\ ticks > 0 /\ timer.n = 0

\* ----------------------------------------------------------------------- C3
\* C3: the stream is never active while an analysis request is in flight.
C3_AnalysisExcludesStream == ~(Mounted /\ isStreaming /\ calls > 0)

\* ----------------------------------------------------------------------- C4
\* C4 as stated: at most one analysis request is outstanding at any time,
\* counting every call that has not completed or failed.
C4_OneOutstanding == calls + orphans <= 1

\* C4 as amended: the mounted dashboard has at most one analysis request
\* outstanding, and while it has one its analyzing flag is set and its Analyze
\* action is disabled.
C4_OnePerDashboard ==
  /\ calls <= 1
  /\ calls = 1 => (Mounted /\ isAnalyzing /\ analyzeDisabled)

\* A dashboard has a request outstanding while a request of an earlier, reset
\* dashboard is still outstanding.
C4_Witness == Mounted /\ calls = 1 /\ orphans = 1 /\ isAnalyzing

\* ----------------------------------------------------------------------- C5
\* C5: the incidents are, in order, exactly the maximal runs of three or more
\* consecutive samples whose user+sys is strictly above the threshold; each
\* starts at its run's first timestamp, ends at its run's last timestamp (a
\* run open at the end included) and carries the run's largest user+sys.
\* Totals 90,90,90,10,95,95,95,95,10 give two incidents at 80, none at 96.
C5_Total(view, i) == view[i].cpu_user_percent + view[i].cpu_sys_percent

C5_Hot(view, th, i) == C5_Total(view, i) > th * 1000

\* The maximal runs <<first, last>> of hot samples, three or more long.
C5_Runs(view, th) ==
  {r \in (1..Len(view)) \X (1..Len(view)) :
     /\ r[2] - r[1] >= 2
     /\ \A i \in r[1]..r[2] : C5_Hot(view, th, i)
     /\ r[1] = 1 \/ ~C5_Hot(view, th, r[1] - 1)
     /\ r[2] = Len(view) \/ ~C5_Hot(view, th, r[2] + 1)}

\* The k-th run from the left.
C5_RunAt(view, th, k) ==
  CHOOSE r \in C5_Runs(view, th) :
    Cardinality({q \in C5_Runs(view, th) : q[1] < r[1]}) = k - 1

C5_Peak(view, r) ==
  CHOOSE m \in {C5_Total(view, i) : i \in r[1]..r[2]} :
    \A i \in r[1]..r[2] : C5_Total(view, i) <= m

C5_Totals(view) == [i \in 1..Len(view) |-> C5_Total(view, i)]

C5_IncidentsAreRuns ==
  Mounted =>
    LET view == filteredData
        th == cpuThreshold
        found == alertIncidents
    IN  /\ Len(found) = Cardinality(C5_Runs(view, th))
        /\ \A k \in 1..Len(found) :
             LET r == C5_RunAt(view, th, k) IN
             /\ found[k].start = view[r[1]].timestamp
             /\ found[k].end = view[r[2]].timestamp
             /\ found[k].maxVal = C5_Peak(view, r)
        /\ C5_Totals(view) = <<90000, 90000, 90000, 10000, 95000, 95000, 95000, 95000, 10000>>
             => /\ th = 80 => Len(found) = 2
                /\ th = 96 => Len(found) = 0

\* Two runs, the second still open at the end of the view and with a peak
\* above its first sample, gave two incidents.
C5_Witness ==
  /\ Mounted
  /\ Len(alertIncidents) = 2
  /\ alertIncidents[2].end = filteredData[Len(filteredData)].timestamp
  /\ alertIncidents[2].maxVal > C5_Total(filteredData, Len(filteredData) - 2)

\* ----------------------------------------------------------------------- C6
\* C6: every tick appends exactly one sample derived from the last one: one
\* second later, user CPU within 5 and system CPU within 2.5 of the last
\* sample's before clamping, both within [0, 100], pid and command unchanged.
C6_Within(x, last, bound) ==
  /\ 0 <= x /\ x <= Pct(100)
  /\ clamp(last - bound) <= x /\ x <= clamp(last + bound)

C6_TickAppendsDerivedSample ==
  [][(Mounted /\ timer.n > 0 /\ (ticks' = ticks + 1 \/ appState' = "CRASHED"))
       => /\ Mounted'
          /\ Len(localData') = Min(Len(localData) + 1, MAX_HISTORY)
          /\ LET last == localData[Len(localData)]
                 new == localData'[Len(localData')]
             IN  /\ ValidDate(last.timestamp) /\ ValidDate(new.timestamp)
                 /\ getTime(new.timestamp, zone) = getTime(last.timestamp, zone) + 1
                 /\ C6_Within(new.cpu_user_percent, last.cpu_user_percent, 5000)
                 /\ C6_Within(new.cpu_sys_percent, last.cpu_sys_percent, 2500)
                 /\ new.pid = last.pid
                 /\ new.command = last.command]_vars

\* ----------------------------------------------------------------------- C7
\* C7: parse returns exactly one sample per valid line, in the lines' order,
\* a line being valid iff it decodes to an object whose cpu_user_percent and
\* cpu_sys_percent are both numbers, whatever its other members are.  (With
\* no valid line the setup view reports that nothing could be parsed.)
C7_Valid(line) ==
  /\ line.kind = "object"
  /\ line.obj.cpu_user_percent[1] = "num"
  /\ line.obj.cpu_sys_percent[1] = "num"

C7_ParseKeepsValidLines ==
  [][/\ (appState = "SETUP" /\ appState' = "DASHBOARD")
        => LET valid == SelectSeq(logInput, C7_Valid) IN
           /\ Len(data') = Len(valid)
           /\ \A j \in 1..Len(data') :
                /\ data'[j].cpu_user_percent = RoundTo(valid[j].obj.cpu_user_percent[2], 10)
                /\ data'[j].cpu_sys_percent = RoundTo(valid[j].obj.cpu_sys_percent[2], 10)
     /\ (appState' = "SETUP" /\ logInput' = logInput
           /\ error' = "Could not parse any valid JSON lines. Check the format.")
        => Len(SelectSeq(logInput, C7_Valid)) = 0]_vars

\* ----------------------------------------------------------------------- C8
\* C8: while the stream is idle the filtered view is exactly the subsequence
\* of the store's samples whose instant t satisfies start <= t <= end, an
\* absent bound being unbounded and equal instants included; with both bounds
\* absent the view is the store.
C8_Instant(ts) == IF ts.kind = "iso" THEN ts.wall ELSE ts.wall - zone

C8_Selected(d) ==
  \/ filterStart.kind = "empty" /\ filterEnd.kind = "empty"
  \/ /\ d.timestamp.kind \in {"iso", "local"}
     /\ filterStart.kind # "empty"
          => /\ filterStart.kind \in {"iso", "local"}
             /\ C8_Instant(filterStart) <= C8_Instant(d.timestamp)
     /\ filterEnd.kind # "empty"
          => /\ filterEnd.kind \in {"iso", "local"}
             /\ C8_Instant(d.timestamp) <= C8_Instant(filterEnd)

\* The index in the store of the k-th selected sample.
C8_IndexOf(k) ==
  CHOOSE i \in 1..Len(localData) :
    /\ C8_Selected(localData[i])
    /\ Cardinality({j \in 1..i : C8_Selected(localData[j])}) = k

C8_FilterIsInclusiveRange ==
  (Mounted /\ ~isStreaming) =>
    /\ Len(filteredData) = Cardinality({i \in 1..Len(localData) : C8_Selected(localData[i])})
    /\ \A k \in 1..Len(filteredData) : filteredData[k] = localData[C8_IndexOf(k)]
    /\ (filterStart = EMPTY /\ filterEnd = EMPTY) => filteredData = localData

\* An idle view with both bounds set that keeps a sample exactly on the end
\* bound and one exactly on the start bound, and drops another sample.
C8_Witness ==
  /\ Mounted /\ ~isStreaming
  /\ ValidDate(filterStart) /\ ValidDate(filterEnd)
  /\ Len(filteredData) < Len(localData)
  /\ \E i, j \in 1..Len(filteredData) :
       /\ getTime(filteredData[i].timestamp, zone) = getTime(filterEnd, zone)
       /\ getTime(filteredData[j].timestamp, zone) = getTime(filterStart, zone)
       /\ getTime(filterStart, zone) < getTime(filterEnd, zone)

\* ----------------------------------------------------------------------- C9
\* C9: statistics over an empty filtered view are count 0, avgUser, avgSys
\* and maxTotal 0, and for avgMem the 'not available' marker that a view
\* without memory data gets, not the number 0.
C9_EmptyStatsMarkNoMemory ==
  (Mounted /\ Len(filteredData) = 0) =>
    /\ stats.count = 0
    /\ stats.avgUser = 0
    /\ stats.avgSys = 0
    /\ stats.maxTotal = 0
    /\ stats.avgMem = <<"N/A", 0>>

\* ---------------------------------------------------------------------- C10
\* C10: with the credential present, a generation call that raises, returns
\* no text or returns undecodable text makes analyzeCpuData return exactly the
\* fixed fallback report; the failure is not propagated.
C10_FallbackOnFailure ==
  (apiKey /\ response \in {Raised, Responded(NoText), Responded(CorruptText)})
    => /\ returned # Thrown
       /\ returned =
            Returned(<<"report",
                       [summary |-> "Failed to generate analysis using AI.",
                        recommendations |->
                          <<"Check your network connection", "Verify API Key">>,
                        severity |-> "LOW"]>>)

\* A call settled on undecodable text and the fallback was returned.
C10_Witness ==
  apiKey /\ response = Responded(CorruptText) /\ returned = Returned(FALLBACK)

\* ---------------------------------------------------------------------- C11
\* What the dashboard shows of its state.
C11_View ==
  <<localData, analysis, isAnalyzing, filterStart, filterEnd, hasSavedAnalysis,
    cpuThreshold, isStreaming>>

\* C11: an analysis requested without the API key makes no generation call
\* and stores no report, and its failure is shown to the user: once the
\* request has failed, the dashboard shown differs from the one shown before
\* the request (the stream the request paused aside), which is the one shown
\* at the failure with the analyzing flag unset.
C11_MissingKeySurfaced ==
  /\ [][(Mounted /\ ~apiKey /\ ~isAnalyzing /\ isAnalyzing')
          => /\ calls' = calls
             /\ prompt' = prompt
             /\ analysis' = analysis]_vars
  /\ [][(thrown /\ ~thrown')
          => /\ returned' = Thrown
             /\ analysis' = analysis
             /\ C11_View' # <<localData, analysis, FALSE, filterStart, filterEnd,
                              hasSavedAnalysis, cpuThreshold, isStreaming>>]_vars

\* ---------------------------------------------------------------------- C12
\* C12: every idle-to-active transition of the stream clears a held analysis:
\* in the state right after the transition the analysis is null.
C12_StartClearsAnalysis ==
  [][(Mounted /\ Mounted' /\ ~isStreaming /\ isStreaming')
       => analysis' = JNull]_vars

\* The stream was started, no tick yet, on a dashboard whose last analysis
\* call had returned a report: the report is no longer held.
C12_Witness ==
  /\ Mounted /\ isStreaming /\ ticks = 0
  /\ calls = 0 /\ orphans = 0
  /\ returned = Returned(SomeReport)
  /\ analysis = JNull

\* ---------------------------------------------------------------------- C13
\* C13: while the stream is active the filtered view is the whole store,
\* whatever the start and end filter hold, and no step taken while it is
\* active changes the start or the end filter of the dashboard.
C13_StreamViewUnfiltered ==
  /\ []((Mounted /\ isStreaming) => filteredData = localData)
  /\ [][(Mounted /\ isStreaming /\ Mounted')
          => (filterStart' = filterStart /\ filterEnd' = filterEnd)]_vars

\* ---------------------------------------------------------------------- C14
\* C14: the payload of an analysis request over a view of length L holds
\* exactly the samples at the (0-based) indices 0, N, 2N, ... below L, with
\* N = ceil(L / 100), in their order; so it holds at most 100 samples, and
\* none for an empty input.
C14_Step(L) == IF L % 100 = 0 THEN L \div 100 ELSE L \div 100 + 1

C14_PayloadIsEveryNth ==
  /\ [](sampledData(<< >>) = << >>)
  /\ [][(Mounted /\ calls' = calls + 1)
          => LET view == filteredData
                 L == Len(view)
                 N == C14_Step(L)
             IN  /\ Len(prompt') <= 100
                 /\ \A k \in 1..Len(prompt') :
                      (k - 1) * N < L /\ prompt'[k] = view[(k - 1) * N + 1]
                 /\ \A i \in 0..(L - 1) :
                      i % N = 0 => prompt'[i \div N + 1] = view[i + 1]]_vars

\* A request in flight over an unfiltered, idle view of more than 200 samples:
\* every third sample was sent.
C14_Witness ==
  /\ Mounted /\ calls = 1 /\ ~isStreaming
  /\ filterStart = EMPTY /\ filterEnd = EMPTY
  /\ Len(filteredData) > 200
  /\ Len(prompt) = (Len(filteredData) + 2) \div 3
  /\ prompt[2] = filteredData[4]
  /\ prompt[Len(prompt)] = filteredData[3 * Len(prompt) - 2]

\* ---------------------------------------------------------------------- C15
\* C15: a Load Saved that finds corrupt text in the slot raises nothing to
\* the user, leaves the held analysis as it is, and from then on the
\* dashboard treats the slot as holding no saved analysis.
C15_CorruptLoadRecovered ==
  [][(Mounted /\ storage # NoText /\ ~Decodable(storage)
        /\ console # LoadMessage /\ console' = LoadMessage)
       => /\ Mounted'
          /\ analysis' = analysis
          /\ ~hasSavedAnalysis']_vars

\* ---------------------------------------------------------------------- C16
\* C16: a request for the state the stream is already in changes nothing.
\* At most one interval is ever alive; a step of the dashboard that does not
\* flip the stream state neither sets nor clears an interval (no second timer
\* while active); and Analyze, which asks for the stream to be stopped, leaves
\* the stream state, the interval, the store and the held analysis as they are
\* when the stream is idle.
C16_StartStopIdempotent ==
  /\ [](timer.n <= 1)
  /\ [][(Mounted /\ Mounted' /\ isStreaming' = isStreaming) => timer' = timer]_vars
  /\ [][(Mounted /\ ~isStreaming /\ ~isAnalyzing /\ isAnalyzing')
          => /\ ~isStreaming'
             /\ timer' = timer
             /\ localData' = localData
             /\ analysis' = analysis]_vars

\* Analyze was clicked on an idle dashboard whose stream had run and ticked
\* and which holds an analysis: no interval is alive.
C16_Witness ==
  /\ Mounted /\ ~isStreaming /\ isAnalyzing
  /\ ticks > 0
  /\ IsSet(analysis)
  /\ timer = [n |-> 0, live |-> FALSE]

\* ---------------------------------------------------------------------- C17
\* C17: a tick keeps the presence of memory data: when the last sample
\* carries a memory_percent, 0 included, the appended sample carries one
\* within 1 of it (to the two decimals it is rounded to), clamped to
\* [0, 100]; when the last sample carries none, the appended one carries none.
C17_TickKeepsMemory ==
  [][(Mounted /\ Mounted' /\ ticks' = ticks + 1)
       => LET last == localData[Len(localData)]
              new == localData'[Len(localData')]
          IN  IF last.memory_percent = Undefined
              THEN new.memory_percent = Undefined
              ELSE /\ new.memory_percent # Undefined
                   /\ 0 <= new.memory_percent[1]
                   /\ new.memory_percent[1] <= Pct(100)
                   /\ toFixed2(clamp(last.memory_percent[1] - 1000)) <= new.memory_percent[1]
                   /\ new.memory_percent[1] <= toFixed2(clamp(last.memory_percent[1] + 1000))]_vars

\* ---------------------------------------------------------------------- C18
\* C18: no failure is fatal: on every store that parse or the demo generator
\* hands to the dashboard, samples with an unparseable timestamp included,
\* every tick completes and appends exactly one sample; the dashboard stays
\* mounted.
C18_TickNeverFatal ==
  /\ [](appState # "CRASHED")
  /\ [][(Mounted /\ isStreaming /\ timer.n > 0
           /\ (ticks' = ticks + 1 \/ appState' = "CRASHED"))
          => /\ Mounted'
             /\ Len(localData') = Min(Len(localData) + 1, MAX_HISTORY)
             /\ SubSeq(localData', 1, Len(localData') - 1)
                  = SubSeq(localData, Len(localData) + 2 - Len(localData'), Len(localData))]_vars

\* ---------------------------------------------------------------------- C19
\* C19: in every state in which the stream is active the dashboard holds no
\* analysis result.
C19_NoAnalysisWhileStreaming == (Mounted /\ isStreaming) => analysis = JNull

\* ---------------------------------------------------------------------- C20
\* C20: with the stream idle, the start and end filter derived from the first
\* and the last timestamp of the store, each cut to the minute (what the
\* dashboard sets when data is loaded and on Reset Filters), select every
\* sample: the filtered view is the whole store.
C20_DerivedFilterSelectsAll ==
  (/\ Mounted /\ ~isStreaming
   /\ Len(localData) > 0
   /\ filterStart = formatForInput(localData[1].timestamp)
   /\ filterEnd = formatForInput(localData[Len(localData)].timestamp))
    => filteredData = localData

\* ---------------------------------------------------------------------- C21
\* C21: the store of a mounted dashboard is never empty: the dashboard is
\* entered only on a parse that returned a sample or on the demo load, and no
\* tick leaves fewer than one sample, so every tick finds a last sample.
C21_StoreNonEmpty == Mounted => Len(localData) >= 1

\* A dashboard whose stream has ticked: the store is what was loaded and one
\* sample per tick.
C21_Witness ==
  /\ Mounted /\ ticks > 0
  /\ Len(data) >= 1
  /\ Len(localData) = Len(data) + ticks

\* ---------------------------------------------------------------------- C22
\* C22: every started analysis request eventually clears the analyzing flag,
\* given that the generation call settles: whether the request returns a
\* report, falls back after a failed call or fails on the missing API key,
\* isAnalyzing is false again.
C22_AnalyzingEventuallyClears == (Mounted /\ isAnalyzing) ~> ~isAnalyzing

\* A request fell back after a failed call and the flag is clear again on the
\* dashboard that made it.
C22_Witness ==
  /\ Mounted /\ ~isAnalyzing /\ calls = 0 /\ orphans = 0
  /\ response = Raised
  /\ returned = Returned(FALLBACK)
  /\ analysis = FALLBACK

====
